---- MODULE Spec2Model ----
(***************************************************************************)
(* State machine of the App component (src/unnamed/part_000): the five     *)
(* React state cells, the file reads started by handleFileUpload that have *)
(* not finished, the service calls awaited by handleStartAnalysis,         *)
(* handleGenerateRecipes and handleMoreSuggestions, and the clock read by  *)
(* handleAddIngredient.  One action per event handler, per promise that    *)
(* settles and per continuation after an await.                            *)
(***************************************************************************)
EXTENDS Bags, FiniteSets, Integers, Sequences, TLC

VARIABLES
  state,            \* useState<AppState>
  capturedImages,   \* useState<string[]>
  ingredients,      \* useState<Ingredient[]>
  recipes,          \* useState<Recipe[]>
  error,            \* useState<string | null>
  uploads,          \* bag of file lists whose reads (Promise.all) are pending
  inflight,         \* service calls that were issued and not yet handled
  now,              \* Date.now()
  sinceReset        \* TRUE from a reset until the next user event

vars == <<state, capturedImages, ingredients, recipes, error,
          uploads, inflight, now, sinceReset>>

\* ---------------------------------------------------------------- bounds
\* files picked in one file-input change event
MaxFiles == 2
\* handleFileUpload invocations whose reads are pending at once
MaxPending == 2
\* files held or being read, in Spec and in CaptureSpec
MaxImages == 2
MaxCapture == 11
\* the same in OrderSpec
MaxOrder == 3
\* service calls issued and not yet handled (the screens allow one)
MaxInflight == 2
\* list length up to which handleAddIngredient is taken
MaxIngredients == 2
\* list length up to which handleMoreSuggestions is taken
MaxRecipes == 2
\* last value of the clock
MaxNow == 1

\* ------------------------------------------------------ program constants
CaptureLimit == 10

NoError == "null"
ImageProcessingMsg == "Failed to process one or more images."
AnalysisMsg == "Failed to analyze images. Please try again."
GenerateMsg == "Failed to generate recipes."
MoreMsg == "Failed to get more suggestions."

AppState == {"IDLE", "ANALYZING", "EDITING", "GENERATING", "RESULTS"}

\* ------------------------------------------------------------ input sets
Payloads == {"imgA"}

Batches == UNION {[1..n -> Payloads] : n \in 0..MaxFiles}

\* distinguishable payloads, for the order of the capture list
OrderPayloads == {"imgA", "imgB"}

\* the k-th file of a pick
OrderFile(k) == IF k % 2 = 1 THEN "imgA" ELSE "imgB"

\* the picks of 0..MaxFiles files
OrderBatches == {[k \in 1..n |-> OrderFile(k)] : n \in 0..MaxFiles}

TypedNames == {"Tofu"}

IngredientIds == {"1", "2"} \cup {"manual-" \o ToString(t) : t \in 0..MaxNow}

AlternateNames == {"Cream"}

Milk == [id |-> "1", name |-> "Milk", possibleAlternates |-> <<"Cream">>]
Eggs == [id |-> "2", name |-> "Eggs", possibleAlternates |-> <<>>]

Soup == [id |-> "r1", title |-> "Soup"]
Cake == [id |-> "r2", title |-> "Cake"]

\* values the two service entry points can resolve with
analyzeFridgeImage(images) == {<<>>, <<Milk>>, <<Milk, Eggs>>}

generateRecipes(ingredientNames, existingTitles) == {<<>>, <<Soup>>, <<Cake>>}

\* ---------------------------------------------------------------- helpers
\* prev.filter(ing => ing.id !== id)
RECURSIVE FilterId(_, _)
FilterId(ings, id) ==
  IF ings = <<>> THEN <<>>
  ELSE (IF Head(ings).id # id THEN <<Head(ings)>> ELSE <<>>)
         \o FilterId(Tail(ings), id)

\* prev.filter((_, i) => i !== index), index counted from 0
FilterIndex(s, index) ==
  [i \in 1..(Len(s) - (IF index + 1 \in 1..Len(s) THEN 1 ELSE 0)) |->
     IF i < index + 1 THEN s[i] ELSE s[i + 1]]

IngredientNames_Ids(ings) == [i \in 1..Len(ings) |-> ings[i].id]

\* ingredients.map(i => i.name)
IngredientNames(ings) == [i \in 1..Len(ings) |-> ings[i].name]

RecipeTitles(rs) == [i \in 1..Len(rs) |-> rs[i].title]

ManualId(t) == "manual-" \o ToString(t)

NewIngredient(t) ==
  [id |-> ManualId(t), name |-> "New Item", possibleAlternates |-> <<>>]

SetName_Every(ings, id, name) ==
  [i \in 1..Len(ings) |-> [ings[i] EXCEPT !.name = name]]

\* prev.map(ing => ing.id === id ? { ...ing, name } : ing)
SetName(ings, id, name) ==
  [i \in 1..Len(ings) |->
     IF ings[i].id = id THEN [ings[i] EXCEPT !.name = name] ELSE ings[i]]

Request(kind, images, names, titles) ==
  [kind |-> kind, images |-> images, names |-> names, titles |-> titles,
   outcome |-> "pending", value |-> <<>>]

\* no settled promise is waiting for its continuation: the code after an
\* await runs as a microtask, before any other event is dispatched
Quiescent == \A i \in 1..Len(inflight) : inflight[i].outcome = "pending"

\* number of files whose reads are pending
PendingFiles ==
  LET S == BagToSet(uploads)
      RECURSIVE Sum(_)
      Sum(T) == IF T = {} THEN 0
                ELSE LET f == CHOOSE x \in T : TRUE
                     IN Len(f) * CopiesIn(f, uploads) + Sum(T \ {f})
  IN Sum(S)

RemoveAt(s, i) == SubSeq(s, 1, i - 1) \o SubSeq(s, i + 1, Len(s))

\* -------------------------------------------------- what each screen shows
ShowsCaptureList == state = "IDLE"
ShowsFileInputs == state = "IDLE"
ShowsAnalyzeButton == state = "IDLE"
ShowsEditor_AlsoInResults == state \in {"EDITING", "RESULTS"}

ShowsEditor_WhileGenerating == state \in {"EDITING", "GENERATING"}

ShowsEditor == state = "EDITING"
ShowsResults == state = "RESULTS"
ShowsNotice == error # NoError

\* ------------------------------------------------------------------- Init
Init ==
  /\ state = "IDLE"
  /\ capturedImages = <<>>
  /\ ingredients = <<>>
  /\ recipes = <<>>
  /\ error = NoError
  /\ uploads = EmptyBag
  /\ inflight = <<>>
  /\ now = 0
  /\ sinceReset = FALSE

\* ---------------------------------------------------------------- actions
\* Date.now() advances
Tick ==
  /\ Quiescent
  /\ now < MaxNow
  /\ now' = now + 1
  /\ UNCHANGED <<state, capturedImages, ingredients, recipes, error,
                 uploads, inflight, sinceReset>>

\* handleFileUpload up to the await: the picked files start being read.
\* It is the change handler of the two file inputs, which stay mounted for
\* as long as the capture screen is shown; the handler looks at nothing but
\* the file list, and the `multiple` input delivers several files.  The
\* Camera / Upload buttons, shown while fewer than 10 images are held, only
\* open the picker and change no state.
handleFileUpload(files, cap) ==
  /\ Quiescent
  /\ ShowsFileInputs
  /\ sinceReset' = FALSE
  /\ IF Len(files) = 0
     THEN UNCHANGED <<state, capturedImages, ingredients, recipes, error,
                      uploads, inflight, now>>
     ELSE /\ BagCardinality(uploads) < MaxPending
          /\ Len(capturedImages) + PendingFiles + Len(files) <= cap
          /\ error' = NoError
          /\ uploads' = uploads (+) SetToBag({files})
          /\ UNCHANGED <<state, capturedImages, ingredients, recipes,
                         inflight, now>>

FileUploadDone_Prepends(files) ==
  /\ Quiescent
  /\ BagIn(files, uploads)
  /\ capturedImages' = files \o capturedImages
  /\ uploads' = uploads (-) SetToBag({files})
  /\ UNCHANGED <<state, ingredients, recipes, error, inflight, now,
                 sinceReset>>

\* handleFileUpload after the await: every read of one invocation finished.
\* The readers have no onerror, so a failed read leaves its invocation
\* pending for ever and the catch branch is never entered.
FileUploadDone(files) ==
  /\ Quiescent
  /\ BagIn(files, uploads)
  /\ capturedImages' = capturedImages \o files
  /\ uploads' = uploads (-) SetToBag({files})
  /\ UNCHANGED <<state, ingredients, recipes, error, inflight, now,
                 sinceReset>>

removeImage(index) ==
  /\ Quiescent
  /\ ShowsCaptureList
  /\ index \in 0..(Len(capturedImages) - 1)
  /\ capturedImages' = FilterIndex(capturedImages, index)
  /\ sinceReset' = FALSE
  /\ UNCHANGED <<state, ingredients, recipes, error, uploads, inflight, now>>

handleStartAnalysis_Unguarded ==
  /\ Quiescent
  /\ ShowsAnalyzeButton
  /\ Len(inflight) < MaxInflight
  /\ sinceReset' = FALSE
  /\ state' = "ANALYZING"
  /\ error' = NoError
  /\ inflight' = Append(inflight, Request("analyze", capturedImages, <<>>, <<>>))
  /\ UNCHANGED <<capturedImages, ingredients, recipes, uploads, now>>

\* handleStartAnalysis up to the await.  With no image the button is
\* disabled and the handler returns at once, so nothing is set.
handleStartAnalysis ==
  /\ Quiescent
  /\ ShowsAnalyzeButton
  /\ Len(capturedImages) # 0
  /\ Len(inflight) < MaxInflight
  /\ sinceReset' = FALSE
  /\ state' = "ANALYZING"
  /\ error' = NoError
  /\ inflight' = Append(inflight, Request("analyze", capturedImages, <<>>, <<>>))
  /\ UNCHANGED <<capturedImages, ingredients, recipes, uploads, now>>

\* a service promise resolves or rejects
ServiceResolves(i) ==
  /\ i \in 1..Len(inflight)
  /\ Quiescent
  /\ \E v \in (IF inflight[i].kind = "analyze"
               THEN analyzeFridgeImage(inflight[i].images)
               ELSE generateRecipes(inflight[i].names, inflight[i].titles)) :
       inflight' = [inflight EXCEPT ![i].outcome = "resolved", ![i].value = v]
  /\ UNCHANGED <<state, capturedImages, ingredients, recipes, error,
                 uploads, now, sinceReset>>

ServiceRejects(i) ==
  /\ i \in 1..Len(inflight)
  /\ Quiescent
  /\ inflight' = [inflight EXCEPT ![i].outcome = "rejected"]
  /\ UNCHANGED <<state, capturedImages, ingredients, recipes, error,
                 uploads, now, sinceReset>>

AnalysisDone_NoRollback(i) ==
  /\ i \in 1..Len(inflight)
  /\ inflight[i].kind = "analyze"
  /\ inflight[i].outcome # "pending"
  /\ IF inflight[i].outcome = "resolved"
     THEN /\ ingredients' = inflight[i].value
          /\ state' = "EDITING"
          /\ error' = error
     ELSE /\ error' = AnalysisMsg
          /\ state' = state
          /\ ingredients' = ingredients
  /\ inflight' = RemoveAt(inflight, i)
  /\ UNCHANGED <<capturedImages, recipes, uploads, now, sinceReset>>

AnalysisDone_OnlyWithAlternates(i) ==
  /\ i \in 1..Len(inflight)
  /\ inflight[i].kind = "analyze"
  /\ inflight[i].outcome # "pending"
  /\ IF inflight[i].outcome = "resolved"
     THEN /\ ingredients' =
               SelectSeq(inflight[i].value,
                         LAMBDA ing : ing.possibleAlternates # <<>>)
          /\ state' = "EDITING"
          /\ error' = error
     ELSE /\ error' = AnalysisMsg
          /\ state' = "IDLE"
          /\ ingredients' = ingredients
  /\ inflight' = RemoveAt(inflight, i)
  /\ UNCHANGED <<capturedImages, recipes, uploads, now, sinceReset>>

\* handleStartAnalysis after the await
AnalysisDone(i) ==
  /\ i \in 1..Len(inflight)
  /\ inflight[i].kind = "analyze"
  /\ inflight[i].outcome # "pending"
  /\ IF inflight[i].outcome = "resolved"
     THEN /\ ingredients' = inflight[i].value
          /\ state' = "EDITING"
          /\ error' = error
     ELSE /\ error' = AnalysisMsg
          /\ state' = "IDLE"
          /\ ingredients' = ingredients
  /\ inflight' = RemoveAt(inflight, i)
  /\ UNCHANGED <<capturedImages, recipes, uploads, now, sinceReset>>

handleAddIngredient ==
  /\ Quiescent
  /\ ShowsEditor
  /\ Len(ingredients) < MaxIngredients
  /\ ingredients' = Append(ingredients, NewIngredient(now))
  /\ sinceReset' = FALSE
  /\ UNCHANGED <<state, capturedImages, recipes, error, uploads, inflight, now>>

updateIngredientName(id, name) ==
  /\ Quiescent
  /\ ShowsEditor
  /\ \E i \in 1..Len(ingredients) : ingredients[i].id = id
  /\ ingredients' = SetName(ingredients, id, name)
  /\ sinceReset' = FALSE
  /\ UNCHANGED <<state, capturedImages, recipes, error, uploads, inflight, now>>

swapIngredient(id, newName) ==
  /\ Quiescent
  /\ ShowsEditor
  /\ \E i \in 1..Len(ingredients) :
       /\ ingredients[i].id = id
       /\ \E k \in 1..Len(ingredients[i].possibleAlternates) :
            ingredients[i].possibleAlternates[k] = newName
  /\ ingredients' = SetName(ingredients, id, newName)
  /\ sinceReset' = FALSE
  /\ UNCHANGED <<state, capturedImages, recipes, error, uploads, inflight, now>>

removeIngredient(id) ==
  /\ Quiescent
  /\ ShowsEditor
  /\ \E i \in 1..Len(ingredients) : ingredients[i].id = id
  /\ ingredients' = FilterId(ingredients, id)
  /\ sinceReset' = FALSE
  /\ UNCHANGED <<state, capturedImages, recipes, error, uploads, inflight, now>>

\* handleGenerateRecipes up to the await
handleGenerateRecipes ==
  /\ Quiescent
  /\ ShowsEditor
  /\ Len(inflight) < MaxInflight
  /\ sinceReset' = FALSE
  /\ state' = "GENERATING"
  /\ inflight' = Append(inflight,
                   Request("generate", <<>>, IngredientNames(ingredients), <<>>))
  /\ UNCHANGED <<capturedImages, ingredients, recipes, error, uploads, now>>

GenerateDone_RawError(i) ==
  /\ i \in 1..Len(inflight)
  /\ inflight[i].kind = "generate"
  /\ inflight[i].outcome # "pending"
  /\ IF inflight[i].outcome = "resolved"
     THEN /\ recipes' = inflight[i].value
          /\ state' = "RESULTS"
          /\ error' = error
     ELSE /\ error' = "Error: request failed"
          /\ state' = "EDITING"
          /\ recipes' = recipes
  /\ inflight' = RemoveAt(inflight, i)
  /\ UNCHANGED <<capturedImages, ingredients, uploads, now, sinceReset>>

GenerateDone_FailsToResults(i) ==
  /\ i \in 1..Len(inflight)
  /\ inflight[i].kind = "generate"
  /\ inflight[i].outcome # "pending"
  /\ IF inflight[i].outcome = "resolved"
     THEN /\ recipes' = inflight[i].value
          /\ error' = error
     ELSE /\ error' = GenerateMsg
          /\ recipes' = recipes
  /\ state' = "RESULTS"
  /\ inflight' = RemoveAt(inflight, i)
  /\ UNCHANGED <<capturedImages, ingredients, uploads, now, sinceReset>>

\* handleGenerateRecipes after the await
GenerateDone(i) ==
  /\ i \in 1..Len(inflight)
  /\ inflight[i].kind = "generate"
  /\ inflight[i].outcome # "pending"
  /\ IF inflight[i].outcome = "resolved"
     THEN /\ recipes' = inflight[i].value
          /\ state' = "RESULTS"
          /\ error' = error
     ELSE /\ error' = GenerateMsg
          /\ state' = "EDITING"
          /\ recipes' = recipes
  /\ inflight' = RemoveAt(inflight, i)
  /\ UNCHANGED <<capturedImages, ingredients, uploads, now, sinceReset>>

\* handleMoreSuggestions up to the await
handleMoreSuggestions ==
  /\ Quiescent
  /\ ShowsResults
  /\ Len(recipes) < MaxRecipes
  /\ Len(inflight) < MaxInflight
  /\ sinceReset' = FALSE
  /\ state' = "GENERATING"
  /\ inflight' = Append(inflight,
                   Request("more", <<>>, IngredientNames(ingredients),
                           RecipeTitles(recipes)))
  /\ UNCHANGED <<capturedImages, ingredients, recipes, error, uploads, now>>

MoreDone_Replaces(i) ==
  /\ i \in 1..Len(inflight)
  /\ inflight[i].kind = "more"
  /\ inflight[i].outcome # "pending"
  /\ IF inflight[i].outcome = "resolved"
     THEN /\ recipes' = inflight[i].value
          /\ error' = error
     ELSE /\ error' = MoreMsg
          /\ recipes' = recipes
  /\ state' = "RESULTS"
  /\ inflight' = RemoveAt(inflight, i)
  /\ UNCHANGED <<capturedImages, ingredients, uploads, now, sinceReset>>

MoreDone_RollsBackToEditing(i) ==
  /\ i \in 1..Len(inflight)
  /\ inflight[i].kind = "more"
  /\ inflight[i].outcome # "pending"
  /\ IF inflight[i].outcome = "resolved"
     THEN /\ recipes' = recipes \o inflight[i].value
          /\ state' = "RESULTS"
          /\ error' = error
     ELSE /\ error' = MoreMsg
          /\ state' = "EDITING"
          /\ recipes' = recipes
  /\ inflight' = RemoveAt(inflight, i)
  /\ UNCHANGED <<capturedImages, ingredients, uploads, now, sinceReset>>

MoreDone_FailureClears(i) ==
  /\ i \in 1..Len(inflight)
  /\ inflight[i].kind = "more"
  /\ inflight[i].outcome # "pending"
  /\ IF inflight[i].outcome = "resolved"
     THEN /\ recipes' = recipes \o inflight[i].value
          /\ error' = error
     ELSE /\ error' = MoreMsg
          /\ recipes' = <<>>
  /\ state' = "RESULTS"
  /\ inflight' = RemoveAt(inflight, i)
  /\ UNCHANGED <<capturedImages, ingredients, uploads, now, sinceReset>>

\* handleMoreSuggestions after the await
MoreDone(i) ==
  /\ i \in 1..Len(inflight)
  /\ inflight[i].kind = "more"
  /\ inflight[i].outcome # "pending"
  /\ IF inflight[i].outcome = "resolved"
     THEN /\ recipes' = recipes \o inflight[i].value
          /\ error' = error
     ELSE /\ error' = MoreMsg
          /\ recipes' = recipes
  /\ state' = "RESULTS"
  /\ inflight' = RemoveAt(inflight, i)
  /\ UNCHANGED <<capturedImages, ingredients, uploads, now, sinceReset>>

reset_KeepsIngredients ==
  /\ Quiescent
  /\ ShowsResults
  /\ ingredients' = ingredients
  /\ recipes' = <<>>
  /\ capturedImages' = <<>>
  /\ state' = "IDLE"
  /\ sinceReset' = TRUE
  /\ UNCHANGED <<error, uploads, inflight, now>>

reset ==
  /\ Quiescent
  /\ ShowsResults
  /\ ingredients' = <<>>
  /\ recipes' = <<>>
  /\ capturedImages' = <<>>
  /\ state' = "IDLE"
  /\ sinceReset' = TRUE
  /\ UNCHANGED <<error, uploads, inflight, now>>

\* the notice's close button: onClick={() => setError(null)}
DismissError ==
  /\ Quiescent
  /\ ShowsNotice
  /\ error' = NoError
  /\ sinceReset' = FALSE
  /\ UNCHANGED <<state, capturedImages, ingredients, recipes, uploads,
                 inflight, now>>

\* every event of the component; batches are the file lists a picker can
\* deliver and cap bounds the files held or being read
Step(batches, cap) ==
  \/ Tick
  \/ \E files \in batches : handleFileUpload(files, cap)
  \/ \E files \in batches : FileUploadDone(files)
  \/ \E index \in 0..(cap - 1) : removeImage(index)
  \/ handleStartAnalysis
  \/ \E i \in 1..MaxInflight : ServiceResolves(i)
  \/ \E i \in 1..MaxInflight : ServiceRejects(i)
  \/ \E i \in 1..MaxInflight : AnalysisDone(i)
  \/ handleAddIngredient
  \/ \E id \in IngredientIds, name \in TypedNames :
       updateIngredientName(id, name)
  \/ \E id \in IngredientIds, alt \in AlternateNames : swapIngredient(id, alt)
  \/ \E id \in IngredientIds : removeIngredient(id)
  \/ handleGenerateRecipes
  \/ \E i \in 1..MaxInflight : GenerateDone(i)
  \/ handleMoreSuggestions
  \/ \E i \in 1..MaxInflight : MoreDone(i)
  \/ reset
  \/ DismissError

Next == Step(Batches, MaxImages)

\* the same component with enough picked files to fill the capture list
CaptureNext == Step(Batches, MaxCapture)

\* the same component over distinguishable payloads
OrderNext == Step(OrderBatches, MaxOrder)

Spec == Init /\ [][Next]_vars

\* the awaited calls complete: every issued request settles and every
\* settled promise runs its continuation
Fairness ==
  /\ WF_vars(\E i \in 1..MaxInflight : ServiceResolves(i) \/ ServiceRejects(i))
  /\ WF_vars(\E i \in 1..MaxInflight : AnalysisDone(i))
  /\ WF_vars(\E i \in 1..MaxInflight : GenerateDone(i))
  /\ WF_vars(\E i \in 1..MaxInflight : MoreDone(i))

LiveSpec == Spec /\ Fairness

CaptureSpec == Init /\ [][CaptureNext]_vars

OrderSpec == Init /\ [][OrderNext]_vars

\* ------------------------------------------------------------- properties
\* the continuation of request i of the given kind and outcome runs in this step
Handled(i, kind, outcome) ==
  /\ i \in 1..Len(inflight)
  /\ inflight[i].kind = kind
  /\ inflight[i].outcome = outcome
  /\ inflight' = RemoveAt(inflight, i)

IsPrefix(s, t) == Len(s) <= Len(t) /\ SubSeq(t, 1, Len(s)) = s

\* C1: once the awaited call completes, Analyzing is followed by Editing or
\* Idle and Generating by Results or Editing, and the state is Analyzing or
\* Generating only while a call is outstanding.
C1_TransientResolves ==
  /\ (state = "ANALYZING") ~> (state \in {"EDITING", "IDLE"})
  /\ (state = "GENERATING") ~> (state \in {"RESULTS", "EDITING"})
  /\ [](state \in {"ANALYZING", "GENERATING"} => inflight # <<>>)

C1_Witness ==
  /\ state = "EDITING"
  /\ error = GenerateMsg
  /\ inflight = <<>>

\* C2: the capture list never holds more than 10 entries.
C2_CaptureAtMostTen == Len(capturedImages) <= CaptureLimit

\* C3: when the continuation of a failed analysis call runs, the state
\* becomes Idle, the analysis notice is set and the capture list equals the
\* list startAnalysis was invoked with.
C3_FailedAnalysisRollsBack ==
  [][\A i \in 1..MaxInflight :
       Handled(i, "analyze", "rejected") =>
         /\ state' = "IDLE"
         /\ error' = AnalysisMsg
         /\ capturedImages' = inflight[i].images]_vars

\* C4: when the continuation of a successful analysis call runs, the state
\* becomes Editing and the ingredient list becomes the service response.
C4_AnalysisSuccess ==
  [][\A i \in 1..MaxInflight :
       Handled(i, "analyze", "resolved") =>
         /\ state' = "EDITING"
         /\ ingredients' = inflight[i].value]_vars

C4_Witness ==
  /\ state = "EDITING"
  /\ ingredients = <<Milk, Eggs>>
  /\ inflight = <<>>

Cleared ==
  /\ capturedImages = <<>>
  /\ ingredients = <<>>
  /\ recipes = <<>>
  /\ state = "IDLE"

\* C5: reset leaves capture list, ingredients and recipes empty and the
\* state Idle, and that configuration lasts until the next user event.
C5_ResetClears == sinceReset => Cleared

\* C6: at most one service request is outstanding, and while one is
\* outstanding every step that does not complete it leaves the state, the
\* ingredients and the recipes unchanged.
C6_OneRequest ==
  /\ [](Len(inflight) <= 1)
  /\ [][(inflight # <<>> /\ Len(inflight') >= Len(inflight)) =>
          UNCHANGED <<state, ingredients, recipes>>]_vars

C6_Witness ==
  /\ Len(inflight) = 1
  /\ inflight[1].kind = "more"
  /\ state = "GENERATING"
  /\ recipes # <<>>

\* C7: outside Idle the capture list changes only by reset.
C7_CaptureFrozenOutsideIdle ==
  [][(state # "IDLE" /\ ~(state = "RESULTS" /\ state' = "IDLE")) =>
       capturedImages' = capturedImages]_vars

\* the list swapIngredient(id, alt) produces from the current ingredients
SwapResult(id, alt) == SetName(ingredients, id, alt)

\* the alternates the editor offers: pairs <<id, alt>> with a button
Offered ==
  {p \in IngredientIds \X AlternateNames :
     state = "EDITING" /\
     \E i \in 1..Len(ingredients) :
       /\ ingredients[i].id = p[1]
       /\ \E k \in 1..Len(ingredients[i].possibleAlternates) :
            ingredients[i].possibleAlternates[k] = p[2]}

Differing(s, t) == {i \in 1..Len(s) : s[i] # t[i]}

\* C8 as stated: accepting an alternate changes exactly one list entry.
C8_ExactlyOneChanges ==
  \A p \in Offered :
    LET out == SwapResult(p[1], p[2])
    IN /\ Len(out) = Len(ingredients)
       /\ Cardinality(Differing(ingredients, out)) = 1

\* C8 amended: accepting an alternate keeps length and order, gives the
\* ingredient with that id the name alt (all its other fields kept), leaves
\* every other ingredient as it was, and changes exactly one entry when the
\* ingredient's name was not alt already and none when it was.
C8_SwapFrame ==
  \A p \in Offered :
    LET out == SwapResult(p[1], p[2])
    IN /\ Len(out) = Len(ingredients)
       /\ \A i \in 1..Len(ingredients) :
            IF ingredients[i].id = p[1]
            THEN out[i] = [ingredients[i] EXCEPT !.name = p[2]]
            ELSE out[i] = ingredients[i]
       /\ Cardinality(Differing(ingredients, out)) =
            IF \E i \in 1..Len(ingredients) :
                 ingredients[i].id = p[1] /\ ingredients[i].name # p[2]
            THEN 1 ELSE 0

C8_Witness ==
  /\ state = "EDITING"
  /\ Len(ingredients) >= 2
  /\ ingredients[1] = [Milk EXCEPT !.name = "Cream"]
  /\ ingredients[2] = Eggs

\* C9: the identifiers in the ingredient list are pairwise distinct.
C9_UniqueIds ==
  \A i, j \in 1..Len(ingredients) :
    ingredients[i].id = ingredients[j].id => i = j

\* C10: when the continuation of a successful requestMoreRecipes runs, the
\* recipe list becomes the old list followed by the response, the old list
\* (the one whose titles were sent) stays a prefix, and the state is Results.
C10_MoreAppends ==
  [][\A i \in 1..MaxInflight :
       Handled(i, "more", "resolved") =>
         /\ recipes' = recipes \o inflight[i].value
         /\ IsPrefix(recipes, recipes')
         /\ RecipeTitles(SubSeq(recipes', 1, Len(inflight[i].titles)))
              = inflight[i].titles
         /\ state' = "RESULTS"]_vars

C10_Witness ==
  /\ state = "RESULTS"
  /\ recipes = <<Soup, Cake>>
  /\ inflight = <<>>

\* C11: with an empty capture list startAnalysis does nothing: from an Idle
\* state with no image no step leaves Idle, issues a service call or changes
\* ingredients or recipes; the capture list changes only when a pending read
\* finishes and the notice only by being cleared; no analysis request ever
\* carries an empty image list.
C11_EmptyStartIsNoOp ==
  /\ [][(state = "IDLE" /\ capturedImages = <<>>) =>
          /\ state' = "IDLE"
          /\ inflight' = inflight
          /\ ingredients' = ingredients
          /\ recipes' = recipes
          /\ (capturedImages' # capturedImages =>
                BagCardinality(uploads') < BagCardinality(uploads))
          /\ (error' # error => error' = NoError)]_vars
  /\ [](\A i \in 1..Len(inflight) :
          inflight[i].kind = "analyze" => inflight[i].images # <<>>)

C11_Witness ==
  /\ state = "IDLE"
  /\ capturedImages = <<>>
  /\ error = AnalysisMsg
  /\ uploads = EmptyBag

\* the names of a list of ingredients, in list order
NamesOf(ings) == [j \in 1..Len(ings) |-> ings[j].name]

\* C12: when the continuation of a failed generateRecipes call runs, the
\* generation notice is set, the state becomes Editing, and ingredients and
\* recipes are what they were when the call was made.
C12_FailedGenerateRollsBack ==
  [][\A i \in 1..MaxInflight :
       Handled(i, "generate", "rejected") =>
         /\ error' = GenerateMsg
         /\ state' = "EDITING"
         /\ ingredients' = ingredients
         /\ NamesOf(ingredients') = inflight[i].names
         /\ recipes' = recipes
         /\ recipes' = <<>>]_vars

C12_Witness ==
  /\ state = "EDITING"
  /\ error = GenerateMsg
  /\ ingredients = <<Milk, Eggs>>
  /\ inflight = <<>>

\* C13: when the continuation of a failed requestMoreRecipes call runs, the
\* notice is set, the state becomes Results and the recipe list is the one
\* whose titles were sent with the call.
C13_FailedMoreKeepsResults ==
  [][\A i \in 1..MaxInflight :
       Handled(i, "more", "rejected") =>
         /\ error' = MoreMsg
         /\ state' = "RESULTS"
         /\ recipes' = recipes
         /\ RecipeTitles(recipes') = inflight[i].titles]_vars

C13_Witness ==
  /\ state = "RESULTS"
  /\ error = MoreMsg
  /\ recipes = <<Soup>>
  /\ inflight = <<>>

\* C14: handleGenerateRecipes sends the names of the current ingredients in
\* list order, and when the continuation of the resolved call runs the
\* recipe list becomes exactly the response and the state Results.
C14_GenerateReplaces ==
  /\ [][(state = "EDITING" /\ state' = "GENERATING") =>
          /\ Len(inflight') = Len(inflight) + 1
          /\ inflight'[Len(inflight')].kind = "generate"
          /\ inflight'[Len(inflight')].names = NamesOf(ingredients)]_vars
  /\ [][\A i \in 1..MaxInflight :
          Handled(i, "generate", "resolved") =>
            /\ recipes' = inflight[i].value
            /\ state' = "RESULTS"
            /\ inflight[i].names = NamesOf(ingredients)]_vars

C14_Witness ==
  /\ state = "RESULTS"
  /\ recipes = <<Cake>>
  /\ Len(ingredients) = 2
  /\ ingredients[1].name = "Cream"
  /\ inflight = <<>>

\* C15 as stated: the notice is absent or one of three messages, one for
\* image processing, one for analysis and one for recipe generation.
C15_ThreeMessages ==
  error \in {NoError, ImageProcessingMsg, AnalysisMsg, GenerateMsg}

FailureMsg(kind) ==
  IF kind = "analyze" THEN AnalysisMsg
  ELSE IF kind = "generate" THEN GenerateMsg
  ELSE MoreMsg

\* C15 amended: the notice is absent or one of four fixed messages (image
\* processing, analysis, recipe generation, more suggestions), and the
\* continuation of every failed service call sets the message of its handler.
C15_FourMessages ==
  /\ [](error \in {NoError, ImageProcessingMsg, AnalysisMsg, GenerateMsg,
                    MoreMsg})
  /\ [][\A i \in 1..MaxInflight :
          \A kind \in {"analyze", "generate", "more"} :
            Handled(i, kind, "rejected") => error' = FailureMsg(kind)]_vars

C15_Witness ==
  /\ state = "GENERATING"
  /\ error = MoreMsg
  /\ Len(inflight) = 1

\* C16: the ingredient list changes only by an edit made in Editing, by the
\* continuation of a resolved analysis call, or by reset; it never changes
\* in a step taken in Generating or in Results other than reset.
C16_EditsOnlyInEditing ==
  [][ingredients' # ingredients =>
       \/ /\ state = "EDITING"
          /\ state' = "EDITING"
          /\ inflight' = inflight
       \/ \E i \in 1..MaxInflight : Handled(i, "analyze", "resolved")
       \/ /\ state = "RESULTS"
          /\ state' = "IDLE"
          /\ ingredients' = <<>>]_vars

C16_Witness ==
  /\ state = "RESULTS"
  /\ Len(ingredients) = 2
  /\ ingredients[1].name = "Tofu"
  /\ ingredients[2].id = ManualId(1)
  /\ inflight = <<>>

\* new is old followed by files: old keeps its positions and the files
\* follow in their order
IsBlockAppend(old, new, files) ==
  /\ Len(new) = Len(old) + Len(files)
  /\ \A j \in 1..Len(old) : new[j] = old[j]
  /\ \A j \in 1..Len(files) : new[Len(old) + j] = files[j]

\* new is old without the entry at index (counted from 0): the entries
\* before it keep their positions, those after it move up by one
IsRemovalAt(old, new, index) ==
  /\ index + 1 \in 1..Len(old)
  /\ Len(new) = Len(old) - 1
  /\ \A j \in 1..index : new[j] = old[j]
  /\ \A j \in (index + 2)..Len(old) : new[j - 1] = old[j]

\* C17: a finished addImages takes exactly its own files off the pending
\* reads and appends them, in their order and as one block, behind the list
\* as it is then, whatever else is pending; starting one changes nothing in
\* the list; removeImage(index) yields the list without the entry at that
\* index, the others in their order; and the list changes in no other way
\* than by such an append, by such a removal in Idle, or by being emptied
\* when the session is reset, so that no payload is lost or duplicated.
C17_CaptureOrder ==
  /\ [][BagCardinality(uploads') < BagCardinality(uploads) =>
          \E files \in BagToSet(uploads) :
            /\ uploads' = uploads (-) SetToBag({files})
            /\ IsBlockAppend(capturedImages, capturedImages', files)]_vars
  /\ [][BagCardinality(uploads') > BagCardinality(uploads) =>
          /\ capturedImages' = capturedImages
          /\ \E files \in OrderBatches \ {<<>>} :
               uploads' = uploads (+) SetToBag({files})]_vars
  /\ [][\A index \in 0..(Len(capturedImages) - 1) :
          removeImage(index) =>
            IsRemovalAt(capturedImages, capturedImages', index)]_vars
  /\ [][capturedImages' # capturedImages =>
          \/ BagCardinality(uploads') < BagCardinality(uploads)
          \/ /\ state = "IDLE" /\ state' = "IDLE" /\ uploads' = uploads
             /\ \E index \in 0..(Len(capturedImages) - 1) :
                  IsRemovalAt(capturedImages, capturedImages', index)
          \/ /\ state = "RESULTS" /\ state' = "IDLE" /\ uploads' = uploads
             /\ capturedImages' = <<>>]_vars
  /\ [](\A index \in 0..(Len(capturedImages) - 1) :
          IsRemovalAt(capturedImages, FilterIndex(capturedImages, index),
                      index))

\* a one-file pick and a two-file pick are being read at once
C17_Witness ==
  /\ state = "IDLE"
  /\ capturedImages = <<>>
  /\ BagCardinality(uploads) = 2
  /\ BagIn(<<"imgA">>, uploads)
  /\ BagIn(<<"imgA", "imgB">>, uploads)

Transitions ==
  {<<"IDLE", "ANALYZING">>, <<"ANALYZING", "EDITING">>,
   <<"ANALYZING", "IDLE">>, <<"EDITING", "GENERATING">>,
   <<"GENERATING", "RESULTS">>, <<"GENERATING", "EDITING">>,
   <<"RESULTS", "GENERATING">>, <<"RESULTS", "IDLE">>}

\* C18: the state changes only along the eight listed transitions;
\* Generating is entered from Editing with a generateRecipes call and from
\* Results with a requestMoreRecipes call, it holds exactly that one call,
\* and it is left for Editing only by the failure of a generateRecipes call,
\* so a Generating entered from Results never leads to Editing.
C18_Transitions ==
  /\ [][state' # state => <<state, state'>> \in Transitions]_vars
  /\ [][(state = "EDITING" /\ state' = "GENERATING") =>
          inflight' = Append(inflight, inflight'[Len(inflight')])
          /\ inflight'[Len(inflight')].kind = "generate"]_vars
  /\ [][(state = "RESULTS" /\ state' = "GENERATING") =>
          inflight' = Append(inflight, inflight'[Len(inflight')])
          /\ inflight'[Len(inflight')].kind = "more"]_vars
  /\ [](state = "GENERATING" =>
          Len(inflight) = 1 /\ inflight[1].kind \in {"generate", "more"})
  /\ [][(state = "GENERATING" /\ state' = "EDITING") =>
          Handled(1, "generate", "rejected")]_vars
  /\ [][(state = "GENERATING" /\ inflight[1].kind = "more") =>
          state' \in {"GENERATING", "RESULTS"}]_vars

C18_Witness ==
  /\ state = "IDLE"
  /\ sinceReset
  /\ error = MoreMsg

\* C19: ingredients are empty in Idle and Analyzing, recipes are empty in
\* Idle, Analyzing and Editing, and outside Idle the capture list is not
\* empty.
C19_Consistency ==
  /\ (state \in {"IDLE", "ANALYZING"} => ingredients = <<>>)
  /\ (state \in {"IDLE", "ANALYZING", "EDITING"} => recipes = <<>>)
  /\ (state # "IDLE" => capturedImages # <<>>)

C19_Witness ==
  /\ state = "ANALYZING"
  /\ error = NoError
  /\ now = MaxNow
  /\ Len(inflight) = 1

\* C20: the notice is absent in Analyzing and Generating, a step that
\* starts a service call clears it, it is absent once the continuation of a
\* resolved call has run, and it is absent after reset.
C20_NoticeIsCurrent ==
  /\ [](state \in {"ANALYZING", "GENERATING"} => error = NoError)
  /\ [][Len(inflight') > Len(inflight) => error' = NoError]_vars
  /\ [][\A i \in 1..MaxInflight :
          \A kind \in {"analyze", "generate", "more"} :
            Handled(i, kind, "resolved") => error' = NoError]_vars
  /\ [](sinceReset => error = NoError)

TypeOK ==
  /\ state \in AppState
  /\ error \in {NoError, ImageProcessingMsg, AnalysisMsg, GenerateMsg, MoreMsg}
  /\ now \in 0..MaxNow
  /\ sinceReset \in BOOLEAN
====
